---- MODULE Spec2Model ----
(***************************************************************************)
(* Model of one WorkflowProcessor.processIssue call of the GitHub issue     *)
(* workflow bot: the retry loop retryWithBackoff, the four steps it wraps   *)
(* (parseWebhook, createBranch, assignAgent, updateStatus), the failure     *)
(* path of processIssue, and the GitHubService methods the steps call.      *)
(* Every await of the code is a suspension point: the synchronous code      *)
(* before it belongs to the action that reaches it, the code after it to    *)
(* the action that models the awaited call returning.                       *)
(***************************************************************************)
EXTENDS Integers, Sequences, FiniteSets, TLC

(* ---------------------------------------------------------------------- *)
(* Bounds of the explored configurations and inputs                        *)
(* ---------------------------------------------------------------------- *)
MaxRetriesBound == 3
\* successive execute calls on one agent followed in AgentSpec
MaxExecutions == 2

\* MAX_RETRIES is read with parseInt and no range check: -1 is loadable.
RetryCounts == -1 .. MaxRetriesBound
InitialDelays == {100, 200}
MaxDelays == {150}
Multipliers == {2}

\* HTTP outcomes of the Octokit calls behind each GitHubService method.
StatusOutcomes == {200, 404, 500}
BranchOutcomes == {200, 404, 422, 500}
AnalysisOutcomes == {200, 500}
\* What the promise of claudeRunner.runPrompt settles with.
RunnerOutcomes == {"resolve", "reject_error", "reject_object", "reject_null",
                   "reject_undefined"}
\* What settles the race of BaseAgent.execute first: the prompt call or the timer.
AgentOutcomes == RunnerOutcomes \cup {"timer"}

\* Values of issue.title, repository.name and repository.owner.login.
Titles == {"", "Add login"}
RepoNames == {"", "repo"}
Logins == {"", "octo"}
\* Values of issue.number.
IssueNumbers == {1}
\* Values of issue.id, issue.body and the names of issue.labels.
IssueIds == {1001}
Bodies == {"As a user I want to log in"}
LabelLists == {<<"bug">>}

(* ---------------------------------------------------------------------- *)
(* Types                                                                   *)
(* ---------------------------------------------------------------------- *)
Steps == <<"PARSE_WEBHOOK", "CREATE_BRANCH", "ASSIGN_AGENT", "UPDATE_STATUS">>

Ops == {"validateRepository", "createBranch", "execute", "addTechLeadAnalysis",
        "status:branch-creating", "status:processing", "status:completed",
        "status:failed"}

\* The GitHubService.updateIssueStatus calls that post a terminal status.
TerminalStatusOps == {"status:completed", "status:failed"}

\* The two Octokit calls of updateIssueStatus, in call order.
StatusCalls == <<"createComment", "addLabels">>

\* Operations that change the remote repository or issue.
MutatingOps == Ops \ {"validateRepository", "execute"}

\* enum WorkflowStatus; "none" stands for "no WorkflowContext object exists yet".
StatusOrder == <<"none", "pending", "parsing", "branch_creating", "agent_assigned",
                 "processing", "completed", "failed">>

Rank(s) == CHOOSE i \in 1..Len(StatusOrder) : StatusOrder[i] = s

Min(a, b) == IF a <= b THEN a ELSE b

\* class WorkflowError: wf distinguishes it from a generic Error; message is
\* the sequence of the concatenated message parts.
WorkflowError(message, code, retryable) ==
  [wf |-> TRUE, code |-> code, retryable |-> retryable, message |-> message]

\* new WorkflowError(message, code): the retryable parameter defaults to true
WorkflowErrorDefault(message, code) == WorkflowError(message, code, TRUE)

\* an Error that is not a WorkflowError: it has no retryable property
\* (reading it gives undefined, which is falsy)
GenericError(message) ==
  [wf |-> FALSE, code |-> "Error", retryable |-> FALSE, message |-> message]

NoError == [wf |-> FALSE, code |-> "none", retryable |-> FALSE, message |-> <<>>]

\* GitHubWebhook: action "" stands for a missing action, issue and repository
\* say whether the object is present;
\* title is issue.title, name is repository.name, login is
\* repository.owner.login (empty when the object is absent).
Payloads ==
  {p \in [action : {"", "opened", "closed"}, issue : BOOLEAN, repository : BOOLEAN,
          state : {"open", "closed"}, title : Titles, name : RepoNames,
          login : Logins, number : IssueNumbers, id : IssueIds, body : Bodies,
          labels : LabelLists] :
     /\ (~p.issue => p.title = "")
     /\ (~p.repository => p.name = "" /\ p.login = "")}

Configs == [maxRetries : RetryCounts, initialDelayMs : InitialDelays,
            maxDelayMs : MaxDelays, backoffMultiplier : Multipliers,
            enabled : BOOLEAN]

VARIABLES
  config,       \* WorkflowConfig: retry policy and tech_lead.enabled
  payload,      \* the webhook payload handed to processIssue
  pc,           \* position of the processIssue call
  step,         \* index in Steps of the retryWithBackoff call in progress (0: none)
  attempt,      \* retryWithBackoff: loop variable attempt
  delay,        \* retryWithBackoff: local delay
  lastError,    \* retryWithBackoff: local lastError
  invocations,  \* per step: number of operation() calls of its retryWithBackoff call
  sleeps,       \* per step: delays passed to sleep() by its retryWithBackoff call
  ctx,          \* the WorkflowContext object built by parseWebhook; its updatedAt
                \* numbers the Date objects assigned to it
  bound,        \* processIssue's local `context` refers to ctx (is not null)
  stepsDone,    \* number of steps whose retryWithBackoff call returned
  result,       \* AgentResult of the last techLeadAgent.execute
  caught,       \* error caught by the catch block of processIssue
  failedDetails,\* details passed to updateStatus(context, FAILED, details)
  thrown,       \* error processIssue rejected with
  calls,        \* per operation: how often it was invoked
  done,         \* per operation: how often it completed successfully
  execs,        \* the BaseAgent.execute calls followed event by event (AgentSpec)
  comments,     \* per terminal status: number of status comments created on the issue
  now,          \* Date.now(): the clock, advanced by the sleeps
  names,        \* branch names made by the githubService.createBranch calls, in order
  other,        \* the locals of a second, suspended processIssue call (ConcurrentSpec)
  consumer,     \* main() and SQSConsumer.processMessage (ConsumerSpec)
  hook,         \* one request to WebhookHandler.handleWebhook (WebhookSpec)
  poll          \* one SQSConsumer: isRunning and its polling loops (PollSpec)

vars == <<config, payload, pc, step, attempt, delay, lastError, invocations, sleeps,
          ctx, bound, stepsDone, result, caught, failedDetails, thrown, calls, done,
          execs, comments, now, names, other, consumer, hook, poll>>

NoContext == [status |-> "none", branchName |-> FALSE, agentType |-> "none",
              title |-> "", repository |-> "", owner |-> "", issueNumber |-> 0,
              issueId |-> 0, body |-> "", labels |-> <<>>, updatedAt |-> 0]

\* no second processIssue call, no queue message, no webhook request
NoOther == [pc |-> "none"]
NoConsumer == [health |-> "none"]
NoHook == [state |-> "none"]
NoPoll == [isRunning |-> FALSE, starts |-> 0, loops |-> <<>>, call |-> "none", batch |-> <<>>]

NoResult == [success |-> FALSE, output |-> "", error |-> <<>>]

Init ==
  /\ config \in Configs
  /\ payload \in Payloads
  /\ pc = "idle"
  /\ step = 0
  /\ attempt = 0
  /\ delay = 0
  /\ lastError = NoError
  /\ invocations = [s \in 1..Len(Steps) |-> 0]
  /\ sleeps = [s \in 1..Len(Steps) |-> <<>>]
  /\ ctx = NoContext
  /\ bound = FALSE
  /\ stepsDone = 0
  /\ result = NoResult
  /\ caught = NoError
  /\ failedDetails = <<>>
  /\ thrown = NoError
  /\ calls = [o \in Ops |-> 0]
  /\ done = [o \in Ops |-> 0]
  /\ execs = <<>>
  /\ comments = [o \in TerminalStatusOps |-> 0]
  /\ now = 0
  /\ names = <<>>
  /\ other = NoOther
  /\ consumer = NoConsumer
  /\ hook = NoHook
  /\ poll = NoPoll

(* ---------------------------------------------------------------------- *)
(* GitHubService: classification of the Octokit outcome of each method     *)
(* ---------------------------------------------------------------------- *)
HttpMessage(http) == <<"http ", ToString(http)>>

\* mutant: a failure is reported although createRef made the branch
GitHubCreateBranchLost(http) ==
  WorkflowError(<<"Failed to create branch: ">> \o HttpMessage(http),
                "BRANCH_CREATION_FAILED", TRUE)

\* GitHubService.createBranch: NoError when the branch was created.
GitHubCreateBranch(http) ==
  IF http = 200 THEN NoError
  ELSE IF http = 422
  THEN WorkflowError(<<"Branch already exists or invalid branch name">>, "BRANCH_EXISTS", FALSE)
  ELSE IF http = 404
  THEN WorkflowError(<<"Repository not found or insufficient permissions">>, "REPO_NOT_FOUND", FALSE)
  ELSE WorkflowError(<<"Failed to create branch: ">> \o HttpMessage(http),
                     "BRANCH_CREATION_FAILED", TRUE)

\* GitHubService.updateIssueStatus: NoError when comment and label were added.
GitHubUpdateIssueStatus(http) ==
  IF http = 200 THEN NoError
  ELSE IF http = 404
  THEN WorkflowError(<<"Issue not found">>, "ISSUE_NOT_FOUND", FALSE)
  ELSE WorkflowError(<<"Failed to update issue status: ">> \o HttpMessage(http),
                     "STATUS_UPDATE_FAILED", TRUE)

\* mutant: the failure of the comment is swallowed
GitHubAddTechLeadAnalysisSwallowed(http) == NoError

\* GitHubService.addTechLeadAnalysis
GitHubAddTechLeadAnalysis(http) ==
  IF http = 200 THEN NoError
  ELSE WorkflowError(<<"Failed to add tech lead analysis: ">> \o HttpMessage(http),
                     "ANALYSIS_UPDATE_FAILED", TRUE)

\* GitHubService.updateIssueStatus creates the comment, then adds the label:
\* the comment exists when the call succeeded or failed at addLabels.
PostComment(op, http, failedCall) ==
  comments' = [comments EXCEPT ![op] = IF http = 200 \/ failedCall = 2 THEN @ + 1 ELSE @]

\* GitHubService.createBranch: feature/issue-${issueNumber}-${Date.now()}
BranchName(issueNumber, time) == <<"feature/issue-", issueNumber, "-", time>>

\* GitHubService.validateRepository: true iff repos.get succeeded; never throws.
GitHubValidateRepository(http) == http = 200

(* ---------------------------------------------------------------------- *)
(* WorkflowProcessor: errors and catch blocks of the steps                 *)
(* ---------------------------------------------------------------------- *)
\* mutant: the state of the issue is not checked
isValidIssueEventAnyState(webhook) ==
  /\ webhook.action = "opened"
  /\ webhook.issue
  /\ webhook.repository

isValidIssueEvent(webhook) ==
  /\ webhook.action = "opened"
  /\ webhook.issue
  /\ webhook.repository
  /\ webhook.state = "open"

InvalidWebhookError ==
  WorkflowError(<<"Invalid webhook payload or unsupported event">>, "INVALID_WEBHOOK", FALSE)

\* mutant: the retryable argument left out (WorkflowError defaults to true)
RepoAccessDeniedRetryable ==
  WorkflowError(<<"No access to repository or repository not found">>,
                "REPO_ACCESS_DENIED", TRUE)

RepoAccessDeniedError ==
  WorkflowError(<<"No access to repository or repository not found">>,
                "REPO_ACCESS_DENIED", FALSE)

AgentDisabledError ==
  WorkflowError(<<"Tech lead agent is disabled">>, "AGENT_DISABLED", FALSE)

\* mutant: a reported failure classified as permanent
AgentExecutionFailedPermanent(res) ==
  WorkflowError(<<"Agent execution failed: ">> \o res.error, "AGENT_EXECUTION_FAILED", FALSE)

AgentExecutionFailedError(res) ==
  WorkflowError(<<"Agent execution failed: ">> \o res.error, "AGENT_EXECUTION_FAILED", TRUE)

\* catch block of WorkflowProcessor.createBranch
CreateBranchCatch(error) ==
  IF error.wf /\ ~error.retryable THEN error
  ELSE WorkflowError(<<"Branch creation failed: ">> \o error.message,
                     "BRANCH_CREATION_FAILED", TRUE)

\* catch block of WorkflowProcessor.assignAgent
AssignAgentCatch(error) ==
  IF error.wf THEN error
  ELSE WorkflowError(<<"Agent assignment failed: ">> \o error.message,
                     "AGENT_ASSIGNMENT_FAILED", TRUE)

\* catch block of WorkflowProcessor.updateStatus
UpdateStatusCatch(error) ==
  WorkflowError(<<"Status update failed: ">> \o error.message, "STATUS_UPDATE_FAILED", TRUE)

(* ---------------------------------------------------------------------- *)
(* WorkflowProcessor.retryWithBackoff                                      *)
(* ---------------------------------------------------------------------- *)
\* mutant: the loop bound off by one
LoopContinuesOffByOne(att, retryConfig) == att < retryConfig.maxRetries

\* loop condition: attempt <= retryConfig.maxRetries
LoopContinues(att, retryConfig) == att <= retryConfig.maxRetries

\* mutant: the retryable flag is not consulted
ShouldRethrowIgnored(error) == FALSE

\* mutant: the instanceof test is left out
ShouldRethrowFalsy(error) == ~error.retryable

\* error instanceof WorkflowError && !error.retryable
ShouldRethrow(error) == error.wf /\ ~error.retryable

\* mutant: the loop gives up one attempt early
IsLastAttemptEarly(att, retryConfig) == att >= retryConfig.maxRetries - 1

\* attempt === retryConfig.maxRetries
IsLastAttempt(att, retryConfig) == att = retryConfig.maxRetries

\* delay = Math.min(delay * backoffMultiplier, maxDelayMs)
NextDelay(d, retryConfig) ==
  Min(d * retryConfig.backoffMultiplier, retryConfig.maxDelayMs)

\* the WorkflowError thrown after the loop
MaxRetriesExceeded(operationType, retryConfig, last) ==
  WorkflowError(
    <<operationType, " failed after ", ToString(retryConfig.maxRetries + 1), " attempts: ">>
      \o (IF last.message = <<>> THEN <<"Unknown error">> ELSE last.message),
    "MAX_RETRIES_EXCEEDED", FALSE)

\* retryWithBackoff rejects: the error reaches the catch block of processIssue.
Throw(error) ==
  /\ pc' = "catch"
  /\ caught' = error

\* mutant: sleep(delay) is called but not awaited
OperationFailsNoAwait(error) ==
  /\ lastError' = error
  /\ IF ShouldRethrow(error)
     THEN Throw(error) /\ UNCHANGED <<sleeps, attempt, delay>>
     ELSE IF IsLastAttempt(attempt, config)
     THEN /\ Throw(MaxRetriesExceeded(Steps[step], config, error))
          /\ UNCHANGED <<sleeps, attempt, delay>>
     ELSE /\ pc' = "loop"
          /\ sleeps' = [sleeps EXCEPT ![step] = Append(@, delay)]
          /\ attempt' = attempt + 1
          /\ delay' = NextDelay(delay, config)
          /\ UNCHANGED caught
  /\ UNCHANGED <<step, stepsDone, bound>>

\* catch block of the retry loop, entered with the error of operation().
OperationFails(error) ==
  /\ lastError' = error
  /\ IF ShouldRethrow(error)
     THEN Throw(error) /\ UNCHANGED sleeps
     ELSE IF IsLastAttempt(attempt, config)
     THEN Throw(MaxRetriesExceeded(Steps[step], config, error)) /\ UNCHANGED sleeps
     ELSE /\ pc' = "sleep"
          /\ sleeps' = [sleeps EXCEPT ![step] = Append(@, delay)]
          /\ UNCHANGED caught
  /\ UNCHANGED <<step, attempt, delay, stepsDone, bound>>

\* operation() resolved: retryWithBackoff returns and processIssue goes on with
\* the next step (a new retryWithBackoff call) or returns.
OperationReturns ==
  /\ stepsDone' = stepsDone + 1
  /\ IF step < Len(Steps)
     THEN /\ step' = step + 1
          /\ attempt' = 0
          /\ delay' = config.initialDelayMs
          /\ lastError' = NoError
          /\ bound' = TRUE
          /\ pc' = "loop"
     ELSE /\ pc' = "returned"
          /\ UNCHANGED <<step, attempt, delay, lastError, bound>>
  /\ UNCHANGED <<caught, sleeps>>

Invoke(op) == calls' = [calls EXCEPT ![op] = @ + 1]
\* the remote side performed op iff the Octokit call succeeded
Settle(op, http) == done' = [done EXCEPT ![op] = IF http = 200 THEN @ + 1 ELSE @]
Entered(s) ==
  /\ pc = "loop"
  /\ step = s
  /\ LoopContinues(attempt, config)
  /\ invocations' = [invocations EXCEPT ![s] = @ + 1]

\* processIssue is called: first retryWithBackoff call (PARSE_WEBHOOK).
Start ==
  /\ pc = "idle"
  /\ pc' = "loop"
  /\ step' = 1
  /\ attempt' = 0
  /\ delay' = config.initialDelayMs
  /\ lastError' = NoError
  /\ UNCHANGED <<poll, config, payload, execs, other, consumer, hook, comments, now, names, invocations, sleeps, ctx, bound, stepsDone, result,
                 caught, failedDetails, thrown, calls, done>>

\* the loop condition fails: the throw after the loop
LoopExit ==
  /\ pc = "loop"
  /\ ~LoopContinues(attempt, config)
  /\ Throw(MaxRetriesExceeded(Steps[step], config, lastError))
  /\ UNCHANGED <<poll, config, payload, execs, other, consumer, hook, comments, now, names, step, attempt, delay, lastError, invocations, sleeps,
                 ctx, bound, stepsDone, result, failedDetails, thrown, calls, done>>

\* mutant: the promise of sleep is made without a timer and never resolves
SleepUnresolved ==
  /\ pc = "sleep"
  /\ UNCHANGED vars

\* the timer of sleep(delay) fires: delay is updated and the loop iterates
Sleep ==
  /\ pc = "sleep"
  /\ now' = now + delay
  /\ delay' = NextDelay(delay, config)
  /\ attempt' = attempt + 1
  /\ pc' = "loop"
  /\ UNCHANGED <<poll, config, payload, execs, other, consumer, hook, comments, names, step, lastError, invocations, sleeps, ctx, bound,
                 stepsDone, result, caught, failedDetails, thrown, calls, done>>

(* ---------------------------------------------------------------------- *)
(* Step 1: parseWebhook                                                    *)
(* ---------------------------------------------------------------------- *)
\* parseWebhook up to its await: validation and construction of the context.
ParseWebhook ==
  /\ Entered(1)
  /\ IF ~isValidIssueEvent(payload)
     THEN /\ OperationFails(InvalidWebhookError)
          /\ UNCHANGED <<ctx, calls>>
     ELSE /\ ctx' = [status |-> "parsing", branchName |-> FALSE, agentType |-> "none",
                      title |-> payload.title, repository |-> payload.name,
                      owner |-> payload.login, issueNumber |-> payload.number,
                      issueId |-> payload.id, body |-> payload.body,
                      labels |-> payload.labels, updatedAt |-> 1]
          /\ Invoke("validateRepository")
          /\ pc' = "validateRepository"
          /\ UNCHANGED <<step, attempt, delay, lastError, bound, stepsDone, caught, sleeps>>
  /\ UNCHANGED <<poll, config, payload, execs, other, consumer, hook, comments, now, names, result, failedDetails, thrown, done>>

\* mutant: the result of the access check is not consulted
ParseSucceedsAlways(hasAccess) == TRUE

\* hasAccess decides whether parseWebhook returns the context
ParseSucceeds(hasAccess) == hasAccess

\* githubService.validateRepository resolved
ValidateRepositoryReturn ==
  /\ pc = "validateRepository"
  /\ \E http \in {200, 404} :
       /\ Settle("validateRepository", http)
       /\ IF ParseSucceeds(GitHubValidateRepository(http))
          THEN OperationReturns
          ELSE OperationFails(RepoAccessDeniedError)
  /\ UNCHANGED <<poll, config, payload, execs, other, consumer, hook, comments, now, names, invocations, ctx, result, failedDetails, thrown, calls>>

(* ---------------------------------------------------------------------- *)
(* Step 2: createBranch                                                    *)
(* ---------------------------------------------------------------------- *)
\* createBranch up to the await of updateIssueStatus('branch-creating')
CreateBranch ==
  /\ Entered(2)
  /\ ctx' = [ctx EXCEPT !.status = "branch_creating", !.updatedAt = @ + 1]
  /\ Invoke("status:branch-creating")
  /\ pc' = "bc_status"
  /\ UNCHANGED <<poll, config, payload, execs, other, consumer, hook, comments, now, names, step, attempt, delay, lastError, sleeps, bound,
                 stepsDone, result, caught, failedDetails, thrown, done>>

\* updateIssueStatus('branch-creating') settled; on success
\* githubService.createBranch is called
BranchStatusReturn ==
  /\ pc = "bc_status"
  /\ \E http \in StatusOutcomes :
       LET error == GitHubUpdateIssueStatus(http) IN
       /\ Settle("status:branch-creating", http)
       /\ IF error = NoError
          THEN /\ Invoke("createBranch")
               /\ names' = Append(names, BranchName(ctx.issueNumber, now))
               /\ pc' = "bc_create"
               /\ UNCHANGED <<step, attempt, delay, lastError, bound, stepsDone,
                              caught, sleeps>>
          ELSE /\ OperationFails(CreateBranchCatch(error))
               /\ UNCHANGED <<calls, names>>
  /\ UNCHANGED <<poll, config, payload, execs, other, consumer, hook, comments, now,
                 invocations, ctx, result, failedDetails, thrown>>

\* mutant: the branch name is stored in the title as well
WithBranchNameInTitle(context) == [context EXCEPT !.branchName = TRUE, !.title = "feature"]

\* context.branchName = branchName
WithBranchName(context) == [context EXCEPT !.branchName = TRUE]

\* githubService.createBranch settled
GitHubCreateBranchReturn ==
  /\ pc = "bc_create"
  /\ \E http \in BranchOutcomes :
       LET error == GitHubCreateBranch(http) IN
       /\ Settle("createBranch", http)
       /\ IF error = NoError
          THEN /\ ctx' = WithBranchName(ctx)
               /\ OperationReturns
          ELSE /\ OperationFails(CreateBranchCatch(error))
               /\ UNCHANGED ctx
  /\ UNCHANGED <<poll, config, payload, execs, other, consumer, hook, comments, now, names, invocations, result, failedDetails, thrown, calls>>

(* ---------------------------------------------------------------------- *)
(* BaseAgent.execute and TechLeadAgent.processIssue                        *)
(* ---------------------------------------------------------------------- *)
\* mutant: only the title is checked
validateContextTitleOnly(context) == context.title # ""

\* BaseAgent.validateContext: TRUE when it returns, FALSE when it throws
validateContext(context) ==
  context.title # "" /\ context.repository # "" /\ context.owner # ""

InvalidContextError ==
  WorkflowError(<<"Invalid workflow context: missing required fields">>,
                "INVALID_CONTEXT", FALSE)

\* the rejection of timeoutPromise
TimeoutError ==
  WorkflowError(<<"Agent ", "tech_lead", " timed out after ", "30000", "ms">>,
                "AGENT_TIMEOUT", TRUE)

\* evaluating `error.message` on null or undefined throws this TypeError
TypeError(outcome) ==
  [wf |-> FALSE, code |-> "TypeError", retryable |-> FALSE,
   message |-> <<"Cannot read properties of ",
                 IF outcome = "reject_null" THEN "null" ELSE "undefined",
                 " (reading 'message')">>]

\* catch block of TechLeadAgent.processIssue, entered with the value runPrompt
\* rejected with: the error processIssue rejects with
TechLeadCatch(outcome) ==
  IF outcome \in {"reject_null", "reject_undefined"}
  THEN TypeError(outcome)
  ELSE WorkflowError(<<"Tech lead analysis failed: ",
                       IF outcome = "reject_error" THEN "Claude API failed"
                       ELSE "undefined">>,
                     "TECH_LEAD_ANALYSIS_FAILED", TRUE)

\* TechLeadAgent.processIssue after validateContext: what its promise settles
\* with once runPrompt settled with outcome
ProcessIssue(outcome) ==
  IF outcome = "resolve"
  THEN [ok |-> TRUE, error |-> NoError,
        value |-> [success |-> TRUE, output |-> "analysis", error |-> <<>>]]
  ELSE [ok |-> FALSE, error |-> TechLeadCatch(outcome), value |-> NoResult]

\* catch block of BaseAgent.execute: error?.message || 'Unknown agent error'
ExecuteCatch(error) ==
  [success |-> FALSE, output |-> "",
   error |-> IF error.message = <<>> THEN <<"Unknown agent error">> ELSE error.message]

\* BaseAgent.execute after `await Promise.race(...)` settled with settlement
RaceResult(settlement) ==
  IF settlement.ok THEN settlement.value ELSE ExecuteCatch(settlement.error)

\* BaseAgent.execute never rejects: it resolves with the result of what settled
\* the race first (a context failing validateContext settles it at once).
AgentExecute(context, first) ==
  IF ~validateContext(context) THEN ExecuteCatch(InvalidContextError)
  ELSE IF first = "timer" THEN ExecuteCatch(TimeoutError)
  ELSE RaceResult(ProcessIssue(first))

(* ---------------------------------------------------------------------- *)
(* Step 3: assignAgent                                                     *)
(* ---------------------------------------------------------------------- *)
\* assignAgent up to the await of updateIssueStatus('processing')
AssignAgent ==
  /\ Entered(3)
  /\ ctx' = [ctx EXCEPT !.status = "agent_assigned", !.agentType = "tech_lead",
                         !.updatedAt = @ + 1]
  /\ Invoke("status:processing")
  /\ pc' = "aa_status"
  /\ UNCHANGED <<poll, config, payload, execs, other, consumer, hook, comments, now, names, step, attempt, delay, lastError, sleeps, bound,
                 stepsDone, result, caught, failedDetails, thrown, done>>

\* updateIssueStatus('processing') settled; on success the enabled check and
\* the call of techLeadAgent.execute
AssignStatusReturn ==
  /\ pc = "aa_status"
  /\ \E http \in StatusOutcomes :
       LET error == GitHubUpdateIssueStatus(http) IN
       /\ Settle("status:processing", http)
       /\ IF error # NoError
          THEN /\ OperationFails(AssignAgentCatch(error))
               /\ UNCHANGED <<ctx, calls>>
          ELSE IF ~config.enabled
          THEN /\ OperationFails(AssignAgentCatch(AgentDisabledError))
               /\ UNCHANGED <<ctx, calls>>
          ELSE /\ ctx' = [ctx EXCEPT !.status = "processing"]
               /\ Invoke("execute")
               /\ pc' = "aa_execute"
               /\ UNCHANGED <<step, attempt, delay, lastError, bound, stepsDone,
                              caught, sleeps>>
  /\ UNCHANGED <<poll, config, payload, execs, other, consumer, hook, comments, now, names, invocations, result, failedDetails, thrown>>

\* techLeadAgent.execute resolved; on success addTechLeadAnalysis is called
AgentExecuteReturn ==
  /\ pc = "aa_execute"
  /\ \E outcome \in AgentOutcomes :
       LET res == AgentExecute(ctx, outcome) IN
       /\ result' = res
       /\ Settle("execute", IF res.success THEN 200 ELSE 500)
       /\ IF ~res.success
          THEN /\ OperationFails(AssignAgentCatch(AgentExecutionFailedError(res)))
               /\ UNCHANGED calls
          ELSE /\ Invoke("addTechLeadAnalysis")
               /\ pc' = "aa_analysis"
               /\ UNCHANGED <<step, attempt, delay, lastError, bound, stepsDone,
                              caught, sleeps>>
  /\ UNCHANGED <<poll, config, payload, execs, other, consumer, hook, comments, now, names, invocations, ctx, failedDetails, thrown>>

\* githubService.addTechLeadAnalysis settled
AnalysisReturn ==
  /\ pc = "aa_analysis"
  /\ \E http \in AnalysisOutcomes :
       LET error == GitHubAddTechLeadAnalysis(http) IN
       /\ Settle("addTechLeadAnalysis", http)
       /\ IF error = NoError
          THEN OperationReturns
          ELSE OperationFails(AssignAgentCatch(error))
  /\ UNCHANGED <<poll, config, payload, execs, other, consumer, hook, comments, now, names, invocations, ctx, result, failedDetails, thrown, calls>>

(* ---------------------------------------------------------------------- *)
(* Step 4: updateStatus(context, COMPLETED)                                *)
(* ---------------------------------------------------------------------- *)
\* updateStatus up to the await of updateIssueStatus(status)
UpdateStatus ==
  /\ Entered(4)
  /\ ctx' = [ctx EXCEPT !.status = "completed", !.updatedAt = @ + 1]
  /\ Invoke("status:completed")
  /\ pc' = "us_update"
  /\ UNCHANGED <<poll, config, payload, execs, other, consumer, hook, comments, now, names, step, attempt, delay, lastError, sleeps, bound,
                 stepsDone, result, caught, failedDetails, thrown, done>>

\* updateIssueStatus('completed') settled
UpdateStatusReturn ==
  /\ pc = "us_update"
  /\ \E http \in StatusOutcomes : \E failedCall \in DOMAIN StatusCalls :
       LET error == GitHubUpdateIssueStatus(http) IN
       /\ Settle("status:completed", http)
       /\ PostComment("status:completed", http, failedCall)
       /\ IF error = NoError
          THEN OperationReturns
          ELSE OperationFails(UpdateStatusCatch(error))
  /\ UNCHANGED <<poll, config, payload, execs, other, consumer, hook, now, names, invocations, ctx, result, failedDetails, thrown, calls>>

(* ---------------------------------------------------------------------- *)
(* processIssue: catch block                                               *)
(* ---------------------------------------------------------------------- *)
\* errorMessage of the catch block
ErrorMessage(error) ==
  IF error.wf THEN error.message ELSE <<"Unexpected error: ">> \o error.message

\* `if (context)`: the FAILED update is made only for a non-null context
HasContext(context) == context

\* mutant: the error of the failed FAILED update escapes the inner catch
RethrownStatusError(original, statusError) ==
  IF statusError # NoError THEN statusError ELSE original

\* the error processIssue rethrows after the failure-path status update
Rethrown(original, statusError) == original

\* catch block up to the await of updateStatus(context, FAILED, errorMessage),
\* or to `throw error` when context is null
Catch ==
  /\ pc = "catch"
  /\ IF HasContext(bound)
     THEN /\ ctx' = [ctx EXCEPT !.status = "failed", !.updatedAt = @ + 1]
          /\ failedDetails' = ErrorMessage(caught)
          /\ Invoke("status:failed")
          /\ pc' = "fail_update"
          /\ UNCHANGED thrown
     ELSE /\ thrown' = Rethrown(caught, NoError)
          /\ pc' = "thrown"
          /\ UNCHANGED <<ctx, failedDetails, calls>>
  /\ UNCHANGED <<poll, config, payload, execs, other, consumer, hook, comments, now, names, step, attempt, delay, lastError, invocations, sleeps,
                 bound, stepsDone, result, caught, done>>

\* updateIssueStatus('failed') settled: a failure is logged, then `throw error`
FailedStatusReturn ==
  /\ pc = "fail_update"
  /\ \E http \in StatusOutcomes : \E failedCall \in DOMAIN StatusCalls :
       LET error == GitHubUpdateIssueStatus(http) IN
       /\ Settle("status:failed", http)
       /\ PostComment("status:failed", http, failedCall)
       /\ thrown' = Rethrown(caught, IF error = NoError THEN NoError
                                      ELSE UpdateStatusCatch(error))
  /\ pc' = "thrown"
  /\ UNCHANGED <<poll, config, payload, execs, other, consumer, hook, now, names, step, attempt, delay, lastError, invocations, sleeps,
                 ctx, bound, stepsDone, result, caught, failedDetails, calls>>

Next ==
  \/ Start
  \/ LoopExit
  \/ Sleep
  \/ ParseWebhook
  \/ ValidateRepositoryReturn
  \/ CreateBranch
  \/ BranchStatusReturn
  \/ GitHubCreateBranchReturn
  \/ AssignAgent
  \/ AssignStatusReturn
  \/ AgentExecuteReturn
  \/ AnalysisReturn
  \/ UpdateStatus
  \/ UpdateStatusReturn
  \/ Catch
  \/ FailedStatusReturn

Spec == Init /\ [][Next]_vars

\* every remote call, agent execution and sleep eventually returns
LiveSpec == Init /\ [][Next]_vars /\ WF_vars(Next)

TypeOK ==
  /\ pc \in {"boot", "idle", "loop", "sleep", "validateRepository", "bc_status", "bc_create",
             "aa_status", "aa_execute", "aa_analysis", "us_update", "catch",
             "fail_update", "returned", "thrown"}
  /\ step \in 0..Len(Steps)
  /\ stepsDone \in 0..Len(Steps)

(* ====================================================================== *)
(* AgentSpec: TechLeadAgent.execute called directly, one call after the   *)
(* other on the same agent, each followed event by event: the settling of *)
(* the runPrompt promise and the firing of the timer of timeoutPromise    *)
(* (never cleared, so it also fires after the call returned).             *)
(* ====================================================================== *)
AgentInit ==
  /\ ctx \in [status : {"pending"}, branchName : {FALSE}, agentType : {"none"},
              title : Titles, repository : RepoNames, owner : Logins,
              issueNumber : IssueNumbers, issueId : IssueIds, body : Bodies,
              labels : LabelLists, updatedAt : {1}]
  /\ payload \in {p \in Payloads : /\ isValidIssueEvent(p)
                                   /\ p.number = ctx.issueNumber
                                   /\ p.title = ctx.title
                                   /\ p.name = ctx.repository
                                   /\ p.login = ctx.owner}
  /\ config \in {c \in Configs : /\ c.maxRetries = 0
                                 /\ c.initialDelayMs = 100
                                 /\ c.enabled}
  /\ pc = "idle"
  /\ step = 0
  /\ attempt = 0
  /\ delay = 0
  /\ lastError = NoError
  /\ invocations = [s \in 1..Len(Steps) |-> 0]
  /\ sleeps = [s \in 1..Len(Steps) |-> <<>>]
  /\ bound = FALSE
  /\ stepsDone = 0
  /\ result = NoResult
  /\ caught = NoError
  /\ failedDetails = <<>>
  /\ thrown = NoError
  /\ calls = [o \in Ops |-> 0]
  /\ done = [o \in Ops |-> 0]
  /\ execs = <<>>
  /\ comments = [o \in TerminalStatusOps |-> 0]
  /\ now = 0
  /\ names = <<>>
  /\ other = NoOther
  /\ consumer = NoConsumer
  /\ hook = NoHook
  /\ poll = NoPoll

\* BaseAgent.execute up to `await Promise.race(...)`: the timer is set and
\* processIssue is called, which validates the context and calls runPrompt.
NewExecution(context) ==
  IF validateContext(context)
  THEN [state |-> "racing", timer |-> "armed", prompt |-> "pending", runnerCalls |-> 1,
        first |-> "none", result |-> NoResult, results |-> 0]
  ELSE [state |-> "returned", timer |-> "armed", prompt |-> "none", runnerCalls |-> 0,
        first |-> "validation", result |-> ExecuteCatch(InvalidContextError),
        results |-> 1]

\* mutant: a promise settling after the race is still applied
RacePendingAlways(e) == TRUE

\* the promise of Promise.race is still pending: the first settlement decides
RacePending(e) == e.state = "racing"

\* execute returns res, decided by the promise that settled first
Returned(e, first, res) ==
  [e EXCEPT !.state = "returned", !.result = res, !.results = @ + 1,
            !.first = IF @ = "none" THEN first ELSE @]

\* techLeadAgent.execute(context) is called (the previous call has returned)
Execute ==
  /\ Len(execs) < MaxExecutions
  /\ \A i \in 1..Len(execs) : execs[i].state = "returned"
  /\ LET e == NewExecution(ctx) IN
       /\ execs' = Append(execs, e)
       /\ result' = IF e.state = "returned" THEN e.result ELSE result
  /\ UNCHANGED <<poll, config, payload, comments, now, names, other, consumer, hook,
                 pc, step, attempt, delay, lastError, invocations,
                 sleeps, ctx, bound, stepsDone, caught, failedDetails, thrown, calls,
                 done>>

\* the promise of runPrompt settles: processIssue settles and, if the race is
\* still pending, execute returns with its outcome
RunPromptSettles ==
  /\ \E i \in 1..Len(execs) : \E outcome \in RunnerOutcomes :
       /\ execs[i].prompt = "pending"
       /\ LET e == [execs[i] EXCEPT !.prompt = outcome]
              res == RaceResult(ProcessIssue(outcome)) IN
            IF RacePending(execs[i])
            THEN /\ execs' = [execs EXCEPT ![i] = Returned(e, "prompt", res)]
                 /\ result' = res
            ELSE /\ execs' = [execs EXCEPT ![i] = e]
                 /\ UNCHANGED result
  /\ UNCHANGED <<poll, config, payload, comments, now, names, other, consumer, hook,
                 pc, step, attempt, delay, lastError, invocations,
                 sleeps, ctx, bound, stepsDone, caught, failedDetails, thrown, calls,
                 done>>

\* the timer of timeoutPromise fires: timeoutPromise rejects and, if the race
\* is still pending, execute returns from its catch block
TimerFires ==
  /\ \E i \in 1..Len(execs) :
       /\ execs[i].timer = "armed"
       /\ LET e == [execs[i] EXCEPT !.timer = "fired"]
              res == ExecuteCatch(TimeoutError) IN
            IF RacePending(execs[i])
            THEN /\ execs' = [execs EXCEPT ![i] = Returned(e, "timer", res)]
                 /\ result' = res
            ELSE /\ execs' = [execs EXCEPT ![i] = e]
                 /\ UNCHANGED result
  /\ UNCHANGED <<poll, config, payload, comments, now, names, other, consumer, hook,
                 pc, step, attempt, delay, lastError, invocations,
                 sleeps, ctx, bound, stepsDone, caught, failedDetails, thrown, calls,
                 done>>

AgentNext ==
  \/ Execute
  \/ RunPromptSettles
  \/ TimerFires

AgentSpec == AgentInit /\ [][AgentNext]_vars

(* ====================================================================== *)
(* RetrySpec: retryWithBackoff around an operation that may return or     *)
(* throw any kind of error, for each of the four calls of processIssue.   *)
(* ====================================================================== *)
\* What one call of operation() may do.
OperationOutcomes == {"return", "generic", "unflagged", "retryable", "permanent"}

\* the error operation() throws
ThrownBy(outcome) ==
  IF outcome = "generic" THEN GenericError(<<"socket hang up">>)
  ELSE IF outcome = "unflagged" THEN WorkflowErrorDefault(<<"unflagged">>, "UNFLAGGED")
  ELSE IF outcome = "retryable" THEN WorkflowError(<<"transient">>, "TRANSIENT", TRUE)
  ELSE WorkflowError(<<"permanent">>, "PERMANENT", FALSE)

RetryInit ==
  /\ Init
  /\ isValidIssueEvent(payload)
  /\ validateContext([title |-> payload.title, repository |-> payload.name,
                      owner |-> payload.login])
  /\ config.enabled

\* `await operation()` of the loop body, for the step in progress
Operation ==
  /\ \E s \in 1..Len(Steps) : Entered(s)
  /\ \E outcome \in OperationOutcomes :
       IF outcome = "return"
       THEN OperationReturns
       ELSE OperationFails(ThrownBy(outcome))
  /\ UNCHANGED <<poll, config, payload, execs, other, consumer, hook, comments, now, names,
                 ctx, result, failedDetails, thrown, calls, done>>

RetryNext ==
  \/ Start
  \/ LoopExit
  \/ Sleep
  \/ Operation

RetrySpec == RetryInit /\ [][RetryNext]_vars

(* ====================================================================== *)
(* ConsumerSpec: main() checks the health of the processor, then the      *)
(* SQSConsumer handles one received queue message with processMessage,    *)
(* which parses the body, awaits processIssue and deletes the message.    *)
(* ====================================================================== *)
\* Message.Body: absent, not JSON, or the JSON text of the payload
MessageBodies == {"none", "garbage", "json"}

\* configurations explored with the consumer around processIssue
ConsumerConfigs == {c \in Configs : c.maxRetries \in {-1, 0, 1}}

ConsumerInit ==
  /\ config \in ConsumerConfigs
  /\ payload \in Payloads
  /\ pc = "boot"
  /\ step = 0
  /\ attempt = 0
  /\ delay = 0
  /\ lastError = NoError
  /\ invocations = [s \in 1..Len(Steps) |-> 0]
  /\ sleeps = [s \in 1..Len(Steps) |-> <<>>]
  /\ ctx = NoContext
  /\ bound = FALSE
  /\ stepsDone = 0
  /\ result = NoResult
  /\ caught = NoError
  /\ failedDetails = <<>>
  /\ thrown = NoError
  /\ calls = [o \in Ops |-> 0]
  /\ done = [o \in Ops |-> 0]
  /\ execs = <<>>
  /\ comments = [o \in TerminalStatusOps |-> 0]
  /\ now = 0
  /\ names = <<>>
  /\ other = NoOther
  /\ hook = NoHook
  /\ poll = NoPoll
  /\ consumer \in [phase : {"main"}, health : {"none"}, access : {"none"}, checks : {0},
                    body : MessageBodies, receipt : BOOLEAN, msg : {"queued"},
                    error : {NoError}, deletes : {0}, removed : {FALSE},
                    deliveries : {1}, branches : {0}, analyses : {0}]
  /\ consumer.body # "json" => payload = CHOOSE p \in Payloads :
                                             isValidIssueEvent(p) /\ p.title # ""
                                               /\ p.name # "" /\ p.login # ""

\* WorkflowProcessor.healthCheck up to the await of validateRepository
HealthCheck ==
  /\ consumer.phase = "main"
  /\ consumer' = [consumer EXCEPT !.phase = "health", !.checks = @ + 1]
  /\ UNCHANGED <<poll, config, payload, comments, now, names, other, hook, execs,
                 pc, step, attempt, delay, lastError, invocations,
                 sleeps, ctx, bound, stepsDone, result, caught, failedDetails, thrown,
                 calls, done>>

\* WorkflowProcessor.healthCheck after the await: the try block returns
\* 'healthy' whatever validateRepository resolved with, the catch block
\* returns 'unhealthy' when it rejected
healthCheck(rejected, hasAccess) == IF rejected THEN "unhealthy" ELSE "healthy"

\* validateRepository settled: healthCheck returns and main() goes on or exits
HealthCheckReturn ==
  /\ consumer.phase = "health"
  /\ \E http \in {200, 404} :
       LET hasAccess == GitHubValidateRepository(http)
           status == healthCheck(FALSE, hasAccess) IN
       consumer' = [consumer EXCEPT !.access = IF hasAccess THEN "ok" ELSE "failed",
                                    !.health = status,
                                    !.phase = IF status = "healthy" THEN "started"
                                              ELSE "exit"]
  /\ UNCHANGED <<poll, config, payload, comments, now, names, other, hook, execs,
                 pc, step, attempt, delay, lastError, invocations,
                 sleeps, ctx, bound, stepsDone, result, caught, failedDetails, thrown,
                 calls, done>>

\* SQSConsumer.parseWebhookPayload: NoError when it returns the payload
parseWebhookPayload(body, webhook) ==
  IF body = "garbage"
  THEN WorkflowError(<<"Failed to parse webhook payload: ", "Unexpected token">>,
                     "WEBHOOK_PARSE_ERROR", FALSE)
  ELSE IF webhook.action = "" \/ ~webhook.issue \/ ~webhook.repository
  THEN WorkflowError(<<"Invalid webhook payload: missing required fields">>,
                     "INVALID_WEBHOOK_PAYLOAD", FALSE)
  ELSE NoError

\* SQSConsumer.processMessage up to the await of processor.processIssue
ProcessMessage ==
  /\ consumer.phase = "started"
  /\ consumer.msg = "queued"
  /\ IF consumer.body = "none" \/ ~consumer.receipt
     THEN /\ consumer' = [consumer EXCEPT !.msg = "skipped"]
          /\ UNCHANGED pc
     ELSE LET error == parseWebhookPayload(consumer.body, payload) IN
          IF error # NoError
          THEN /\ consumer' = [consumer EXCEPT !.msg = "failed", !.error = error]
               /\ UNCHANGED pc
          ELSE /\ consumer' = [consumer EXCEPT !.msg = "processing"]
               /\ pc' = "idle"
  /\ UNCHANGED <<poll, config, payload, comments, now, names, other, hook, execs,
                 step, attempt, delay, lastError, invocations,
                 sleeps, ctx, bound, stepsDone, result, caught, failedDetails, thrown,
                 calls, done>>

\* mutant: the delete is made in a finally block
DeleteAfterAlways(position) == position \in {"returned", "thrown"}

\* deleteMessage is the statement after `await processIssue(...)` in the try
\* block: it is reached when processIssue returned
DeleteAfter(position) == position = "returned"

\* processIssue returned: deleteMessage sends the DeleteMessageCommand
DeleteMessage ==
  /\ consumer.msg = "processing"
  /\ DeleteAfter(pc)
  /\ consumer' = [consumer EXCEPT !.msg = "deleting", !.deletes = @ + 1]
  /\ UNCHANGED <<poll, config, payload, comments, now, names, other, hook, execs,
                 pc, step, attempt, delay, lastError, invocations,
                 sleeps, ctx, bound, stepsDone, result, caught, failedDetails, thrown,
                 calls, done>>

\* the DeleteMessageCommand settled: a failure is logged and swallowed
DeleteReturn ==
  /\ consumer.msg = "deleting"
  /\ \E ok \in BOOLEAN :
       consumer' = [consumer EXCEPT !.msg = "done", !.removed = ok]
  /\ UNCHANGED <<poll, config, payload, comments, now, names, other, hook, execs,
                 pc, step, attempt, delay, lastError, invocations,
                 sleeps, ctx, bound, stepsDone, result, caught, failedDetails, thrown,
                 calls, done>>

\* processIssue rejected: the catch block of processMessage logs the error
MessageCatch ==
  /\ consumer.msg = "processing"
  /\ pc = "thrown"
  /\ consumer' = [consumer EXCEPT !.msg = "failed", !.error = thrown]
  /\ UNCHANGED <<poll, config, payload, comments, now, names, other, hook, execs,
                 pc, step, attempt, delay, lastError, invocations,
                 sleeps, ctx, bound, stepsDone, result, caught, failedDetails, thrown,
                 calls, done>>

ConsumerNext ==
  \/ HealthCheck
  \/ HealthCheckReturn
  \/ ProcessMessage
  \/ Next
  \/ DeleteMessage
  \/ DeleteReturn
  \/ MessageCatch

ConsumerSpec == ConsumerInit /\ [][ConsumerNext]_vars

(* ====================================================================== *)
(* RedeliverySpec: ConsumerSpec with the queue delivering again a message  *)
(* that was not deleted. consumer.branches and consumer.analyses count the *)
(* branches and analysis comments made by the earlier deliveries.          *)
(* ====================================================================== *)
\* deliveries of the message followed
MaxDeliveries == 2

\* SQSConfig.visibilityTimeoutSeconds, in milliseconds
VisibilityTimeoutMs == 300000

\* the message was not deleted (processMessage caught an error, or the delete
\* failed): after the visibility timeout a later poll receives it again and
\* processMessage is called with it, a new processIssue call with new locals
Redeliver ==
  /\ consumer.phase = "started"
  /\ consumer.body = "json"
  /\ \/ consumer.msg = "failed"
     \/ consumer.msg = "done" /\ ~consumer.removed
  /\ consumer.deliveries < MaxDeliveries
  /\ consumer' = [consumer EXCEPT !.msg = "queued", !.error = NoError, !.deletes = 0,
                                  !.removed = FALSE, !.deliveries = @ + 1,
                                  !.branches = @ + done["createBranch"],
                                  !.analyses = @ + done["addTechLeadAnalysis"]]
  /\ now' = now + VisibilityTimeoutMs
  /\ pc' = "boot"
  /\ step' = 0
  /\ attempt' = 0
  /\ delay' = 0
  /\ lastError' = NoError
  /\ invocations' = [s \in 1..Len(Steps) |-> 0]
  /\ sleeps' = [s \in 1..Len(Steps) |-> <<>>]
  /\ ctx' = NoContext
  /\ bound' = FALSE
  /\ stepsDone' = 0
  /\ result' = NoResult
  /\ caught' = NoError
  /\ failedDetails' = <<>>
  /\ thrown' = NoError
  /\ calls' = [o \in Ops |-> 0]
  /\ done' = [o \in Ops |-> 0]
  /\ comments' = [o \in TerminalStatusOps |-> 0]
  /\ UNCHANGED <<poll, config, payload, execs, names, other, hook>>

RedeliveryNext ==
  \/ ConsumerNext
  \/ Redeliver

RedeliverySpec == ConsumerInit /\ [][RedeliveryNext]_vars

(* ====================================================================== *)
(* ConcurrentSpec: two processIssue calls on the same WorkflowProcessor,   *)
(* the messages of one polled batch (pollMessages maps processMessage over *)
(* the batch and awaits Promise.allSettled). One call runs at a time; at   *)
(* an await the event loop may resume the other call. The variables of     *)
(* Spec are the locals of the running call, `other` holds those of the     *)
(* suspended call; the processor's config and the clock are shared.        *)
(* ====================================================================== *)
\* the locals of the running processIssue call and of the retryWithBackoff
\* and step functions it is in, and the remote effects it caused
Locals ==
  [payload |-> payload, pc |-> pc, step |-> step, attempt |-> attempt, delay |-> delay,
   lastError |-> lastError, invocations |-> invocations, sleeps |-> sleeps, ctx |-> ctx,
   bound |-> bound, stepsDone |-> stepsDone, result |-> result, caught |-> caught,
   failedDetails |-> failedDetails, thrown |-> thrown, calls |-> calls, done |-> done,
   comments |-> comments, names |-> names]

\* the configurations of the processor both calls run on: no attempt at all,
\* one attempt of every step, or two attempts with the tech lead agent
\* disabled (the calls end at ASSIGN_AGENT)
ConcurrentConfigs ==
  {c \in Configs : /\ c.initialDelayMs = 100
                   /\ \/ c.maxRetries = -1
                      \/ c.maxRetries = 0 /\ c.enabled
                      \/ c.maxRetries = 1 /\ ~c.enabled}

\* deliveries of an 'opened' event of the same open issue
ConcurrentPayloads ==
  {w \in Payloads : isValidIssueEvent(w) /\ w.title # "" /\ w.name # "" /\ w.login # ""}

ConcurrentInit ==
  /\ Init
  /\ config \in ConcurrentConfigs
  /\ payload \in ConcurrentPayloads

\* pollMessages: processMessage is mapped over the batch, so the second call is
\* made when the first reached its first await
SecondCall ==
  /\ other = NoOther
  /\ pc # "idle"
  /\ \E w \in ConcurrentPayloads :
       other' = [payload |-> w, pc |-> "idle", step |-> 0, attempt |-> 0, delay |-> 0,
                 lastError |-> NoError, invocations |-> [s \in 1..Len(Steps) |-> 0],
                 sleeps |-> [s \in 1..Len(Steps) |-> <<>>], ctx |-> NoContext,
                 bound |-> FALSE, stepsDone |-> 0, result |-> NoResult, caught |-> NoError,
                 failedDetails |-> <<>>, thrown |-> NoError, calls |-> [o \in Ops |-> 0],
                 done |-> [o \in Ops |-> 0], comments |-> [o \in TerminalStatusOps |-> 0],
                 names |-> <<>>]
  /\ UNCHANGED <<poll, config, payload, pc, step, attempt, delay, lastError, invocations, sleeps,
                 ctx, bound, stepsDone, result, caught, failedDetails, thrown, calls, done,
                 execs, comments, now, names, consumer, hook>>

\* a call can be left only at an await (or before it started, or when it
\* settled): the code between two awaits runs to completion
Suspended(position) == position \notin {"loop", "catch"}

\* mutant: delay is a field of the processor, shared by the calls
ResumedDelayShared(own, current) == current

\* `let delay` is a local of retryWithBackoff: the resumed call finds its own
ResumedDelay(own, current) == own

\* the event loop leaves the running call at its await and resumes the other
Switch ==
  /\ other # NoOther
  /\ Suspended(pc)
  /\ other' = Locals
  /\ payload' = other.payload
  /\ pc' = other.pc
  /\ step' = other.step
  /\ attempt' = other.attempt
  /\ delay' = ResumedDelay(other.delay, delay)
  /\ lastError' = other.lastError
  /\ invocations' = other.invocations
  /\ sleeps' = other.sleeps
  /\ ctx' = other.ctx
  /\ bound' = other.bound
  /\ stepsDone' = other.stepsDone
  /\ result' = other.result
  /\ caught' = other.caught
  /\ failedDetails' = other.failedDetails
  /\ thrown' = other.thrown
  /\ calls' = other.calls
  /\ done' = other.done
  /\ comments' = other.comments
  /\ names' = other.names
  /\ UNCHANGED <<poll, config, execs, now, consumer, hook>>

ConcurrentNext ==
  \/ SecondCall
  \/ Switch
  \/ Next

ConcurrentSpec == ConcurrentInit /\ [][ConcurrentNext]_vars

(* ====================================================================== *)
(* WebhookSpec: one POST /webhook request handled by                       *)
(* WebhookHandler.handleWebhook. Strings that the code inspects character  *)
(* by character (label names) are sequences of characters; an HMAC is the  *)
(* pair of the key and the bytes it was computed from.                     *)
(* ====================================================================== *)
\* WebhookConfig.secret, and a key tried by a sender who does not know it
Secret == "secret"
GuessedKey == "guess"

\* label names carried by the issues of the requests
LabelNames ==
  { <<"b", "u", "g">>,
    <<"W", "o", "n", "t", "F", "i", "x">>,
    <<"q", "u", "e", "s", "t", "i", "o", "n">>,
    <<"i", "n", "v", "a", "l", "i", "d", "s">>,
    <<"w", "o", "r", "k", "f", "l", "o", "w", ":", "x">>,
    <<"W", "o", "r", "k", "f", "l", "o", "w", ":", "x">> }

\* most labels on the issue of a request
MaxLabels == 2

\* request bodies: not JSON, or the JSON text of a GitHubWebhook
WebhookBodies ==
  {[json |-> FALSE, action |-> "", issue |-> FALSE, state |-> "none", labels |-> {}]}
  \cup {b \in [json : {TRUE}, action : {"opened", "edited"}, issue : BOOLEAN,
               state : {"none", "open", "closed"}, labels : SUBSET LabelNames] :
          /\ Cardinality(b.labels) <= MaxLabels
          /\ b.issue <=> b.state # "none"
          /\ ~b.issue => b.labels = {}}

\* a body GitHub signed earlier, whose signature a sender can replay
EarlierBody ==
  [json |-> TRUE, action |-> "opened", issue |-> TRUE, state |-> "open", labels |-> {}]

\* `sha256=` followed by the hex digest of the HMAC of payload under key
Hmac(key, body) == [prefix |-> "sha256=", key |-> key, body |-> body]
NoSignature == [prefix |-> "", key |-> "", body |-> <<>>]
TruncatedSignature == [prefix |-> "sha256=", key |-> "", body |-> <<>>]

\* the x-hub-signature-256 headers a request with this body can carry
Signatures(body) ==
  {NoSignature, TruncatedSignature, Hmac(Secret, body), Hmac(GuessedKey, body),
   Hmac(Secret, EarlierBody)}

\* Buffer.from(signature).length: the prefix and the hex digits
PrefixLength == 7
DigestLength == 64
ByteLength(signature) ==
  IF signature = TruncatedSignature THEN PrefixLength ELSE PrefixLength + DigestLength

\* crypto.timingSafeEqual throws for buffers of different length, which the
\* catch block turns into false
verifySignature(signature, body) ==
  IF signature = NoSignature THEN FALSE
  ELSE LET expectedSignature == Hmac(Secret, body) IN
       IF ByteLength(signature) # ByteLength(expectedSignature) THEN FALSE
       ELSE signature = expectedSignature

\* String.prototype.toLowerCase on the letters that occur
LowerOf == ("W" :> "w") @@ ("F" :> "f")

\* mutant: label names compared as they are
toLowerCaseIdentity(name) == name

toLowerCase(name) ==
  [i \in DOMAIN name |-> IF name[i] \in DOMAIN LowerOf THEN LowerOf[name[i]] ELSE name[i]]

startsWith(name, prefix) ==
  /\ Len(name) >= Len(prefix)
  /\ SubSeq(name, 1, Len(prefix)) = prefix

ignoredLabels ==
  { <<"w", "o", "n", "t", "f", "i", "x">>,
    <<"d", "u", "p", "l", "i", "c", "a", "t", "e">>,
    <<"i", "n", "v", "a", "l", "i", "d">>,
    <<"q", "u", "e", "s", "t", "i", "o", "n">> }

WorkflowPrefix == <<"w", "o", "r", "k", "f", "l", "o", "w", ":">>

shouldProcessWebhook(webhook) ==
  IF webhook.action # "opened" THEN FALSE
  ELSE IF ~webhook.issue \/ webhook.state # "open" THEN FALSE
  ELSE LET issueLabels == {toLowerCase(label) : label \in webhook.labels}
           workflowLabels == {label \in issueLabels : startsWith(label, WorkflowPrefix)}
       IN IF \E label \in ignoredLabels : label \in issueLabels THEN FALSE
          ELSE IF Cardinality(workflowLabels) > 0 THEN FALSE
          ELSE TRUE

\* the handler is constructed and listening; no request yet
WebhookInit ==
  /\ Init
  /\ config = CHOOSE c \in Configs : c.maxRetries = 0 /\ c.initialDelayMs = 100 /\ c.enabled
  /\ payload = CHOOSE w \in Payloads : isValidIssueEvent(w) /\ w.title # ""
                                         /\ w.name # "" /\ w.login # ""

\* res.status(code).json(...)
Respond(request, code, message) ==
  [request EXCEPT !.state = "responded", !.status = code, !.message = message]

\* a POST /webhook arrives: express.raw leaves the bytes of the body in req.body
Request ==
  /\ hook = NoHook
  /\ \E body \in WebhookBodies : \E signature \in Signatures(body) :
       hook' = [state |-> "request", signature |-> signature, body |-> body,
                status |-> 0, message |-> "", sent |-> 0, queue |-> <<>>]
  /\ UNCHANGED <<poll, config, payload, pc, step, attempt, delay, lastError, invocations, sleeps,
                 ctx, bound, stepsDone, result, caught, failedDetails, thrown, calls, done,
                 execs, comments, now, names, other, consumer>>

\* handleWebhook up to its first response or to the await of sqsClient.send
HandleWebhook ==
  /\ hook # NoHook
  /\ hook.state = "request"
  /\ hook' = IF ~verifySignature(hook.signature, hook.body)
             THEN Respond(hook, 401, "Invalid signature")
             ELSE IF ~hook.body.json
             THEN Respond(hook, 500, "Failed to process webhook")
             ELSE IF ~shouldProcessWebhook(hook.body)
             THEN Respond(hook, 200, "Event ignored")
             ELSE [hook EXCEPT !.state = "sending", !.sent = @ + 1]
  /\ UNCHANGED <<poll, config, payload, pc, step, attempt, delay, lastError, invocations, sleeps,
                 ctx, bound, stepsDone, result, caught, failedDetails, thrown, calls, done,
                 execs, comments, now, names, other, consumer>>

\* sqsClient.send settled: the message is in the queue, or enqueueWebhook
\* throws ENQUEUE_FAILED and the catch block of handleWebhook answers 400
EnqueueReturn ==
  /\ hook # NoHook
  /\ hook.state = "sending"
  /\ \E accepted \in BOOLEAN :
       hook' = IF accepted
               THEN [Respond(hook, 200, "Webhook received and queued for processing")
                       EXCEPT !.queue = Append(@, hook.body)]
               ELSE Respond(hook, 400, "Failed to enqueue webhook")
  /\ UNCHANGED <<poll, config, payload, pc, step, attempt, delay, lastError, invocations, sleeps,
                 ctx, bound, stepsDone, result, caught, failedDetails, thrown, calls, done,
                 execs, comments, now, names, other, consumer>>

WebhookNext ==
  \/ Request
  \/ HandleWebhook
  \/ EnqueueReturn

WebhookSpec == WebhookInit /\ [][WebhookNext]_vars

(* ====================================================================== *)
(* PollSpec: one SQSConsumer.pollMessages call. poll.call is its position, *)
(* poll.batch the processMessage promises of the received messages.        *)
(* processIssue is followed only to its settling.                          *)
(* ====================================================================== *)
\* SQSConfig.maxMessages
MaxMessages == 3

\* the batches a ReceiveMessageCommand can return
Batches == UNION {[1..n -> MessageBodies] : n \in 0..MaxMessages}

PollInit ==
  /\ Init
  /\ config = CHOOSE c \in Configs : c.maxRetries = 0 /\ c.initialDelayMs = 100 /\ c.enabled
  /\ payload = CHOOSE w \in Payloads : isValidIssueEvent(w) /\ w.title # ""
                                         /\ w.name # "" /\ w.login # ""

\* processMessage up to its return or to the await of processIssue
StartMessage(body) ==
  IF body = "none" THEN [state |-> "fulfilled", outcome |-> "skipped"]
  ELSE IF parseWebhookPayload(body, payload) # NoError
  THEN [state |-> "fulfilled", outcome |-> "failed"]
  ELSE [state |-> "processing", outcome |-> "none"]

\* pollMessages up to the await of sqsClient.send(ReceiveMessageCommand)
PollMessages ==
  /\ poll.call = "none"
  /\ poll' = [poll EXCEPT !.call = "receive"]
  /\ UNCHANGED <<config, payload, pc, step, attempt, delay, lastError, invocations, sleeps,
                 ctx, bound, stepsDone, result, caught, failedDetails, thrown, calls, done,
                 execs, comments, now, names, other, consumer, hook>>

\* the receive settled: on a rejection pollMessages logs and rethrows, without
\* messages it returns, otherwise processMessage is mapped over the messages
\* and Promise.allSettled awaited
ReceiveReturn ==
  /\ poll.call = "receive"
  /\ \/ poll' = [poll EXCEPT !.call = "thrown"]
     \/ \E received \in Batches :
          poll' = IF Len(received) = 0
                  THEN [poll EXCEPT !.call = "returned"]
                  ELSE [poll EXCEPT !.call = "settling",
                                    !.batch = [i \in DOMAIN received |->
                                                 StartMessage(received[i])]]
  /\ UNCHANGED <<config, payload, pc, step, attempt, delay, lastError, invocations, sleeps,
                 ctx, bound, stepsDone, result, caught, failedDetails, thrown, calls, done,
                 execs, comments, now, names, other, consumer, hook>>

\* mutant: the catch block of processMessage rethrows the error
MessageCaughtRethrown == [state |-> "rejected", outcome |-> "failed"]

\* the catch block of processMessage logs the error and returns
MessageCaught == [state |-> "fulfilled", outcome |-> "failed"]

\* processIssue of message i settled: deleteMessage is called, or the catch
\* block entered
ProcessIssueSettles(i) ==
  /\ poll.call = "settling"
  /\ i \in DOMAIN poll.batch
  /\ poll.batch[i].state = "processing"
  /\ \E resolved \in BOOLEAN :
       poll' = [poll EXCEPT !.batch[i] = IF resolved
                                         THEN [state |-> "deleting", outcome |-> "none"]
                                         ELSE MessageCaught]
  /\ UNCHANGED <<config, payload, pc, step, attempt, delay, lastError, invocations, sleeps,
                 ctx, bound, stepsDone, result, caught, failedDetails, thrown, calls, done,
                 execs, comments, now, names, other, consumer, hook>>

\* the DeleteMessageCommand of message i settled; deleteMessage swallows a failure
DeleteSettles(i) ==
  /\ poll.call = "settling"
  /\ i \in DOMAIN poll.batch
  /\ poll.batch[i].state = "deleting"
  /\ \E removed \in BOOLEAN :
       poll' = [poll EXCEPT !.batch[i] = [state |-> "fulfilled",
                                          outcome |-> IF removed THEN "deleted" ELSE "kept"]]
  /\ UNCHANGED <<config, payload, pc, step, attempt, delay, lastError, invocations, sleeps,
                 ctx, bound, stepsDone, result, caught, failedDetails, thrown, calls, done,
                 execs, comments, now, names, other, consumer, hook>>

\* Promise.allSettled resolves when every promise settled
AllSettled ==
  /\ poll.call = "settling"
  /\ \A i \in DOMAIN poll.batch : poll.batch[i].state \in {"fulfilled", "rejected"}
  /\ poll' = [poll EXCEPT !.call = "returned"]
  /\ UNCHANGED <<config, payload, pc, step, attempt, delay, lastError, invocations, sleeps,
                 ctx, bound, stepsDone, result, caught, failedDetails, thrown, calls, done,
                 execs, comments, now, names, other, consumer, hook>>

PollNext ==
  \/ PollMessages
  \/ ReceiveReturn
  \/ \E i \in 1..MaxMessages : ProcessIssueSettles(i)
  \/ \E i \in 1..MaxMessages : DeleteSettles(i)
  \/ AllSettled

PollSpec == PollInit /\ [][PollNext]_vars

(* ====================================================================== *)
(* LoopSpec: start() and stop() calls on one SQSConsumer. poll.loops holds *)
(* the position of the while loop of every start() call that entered it.   *)
(* ====================================================================== *)
\* start() calls followed
MaxStarts == 3

\* `while (this.isRunning)`: the next pollMessages call, or the end of start()
WhileCheck(isRunning) == IF isRunning THEN "receiving" ELSE "exited"

\* start(): returns when already running, else sets isRunning and enters the loop
StartCall ==
  /\ poll.starts < MaxStarts
  /\ poll' = IF poll.isRunning
             THEN [poll EXCEPT !.starts = @ + 1]
             ELSE [poll EXCEPT !.starts = @ + 1, !.isRunning = TRUE,
                               !.loops = Append(@, WhileCheck(TRUE))]
  /\ UNCHANGED <<config, payload, pc, step, attempt, delay, lastError, invocations, sleeps,
                 ctx, bound, stepsDone, result, caught, failedDetails, thrown, calls, done,
                 execs, comments, now, names, other, consumer, hook>>

\* stop()
StopCall ==
  /\ poll.isRunning
  /\ poll' = [poll EXCEPT !.isRunning = FALSE]
  /\ UNCHANGED <<config, payload, pc, step, attempt, delay, lastError, invocations, sleeps,
                 ctx, bound, stepsDone, result, caught, failedDetails, thrown, calls, done,
                 execs, comments, now, names, other, consumer, hook>>

\* the receive of loop l settled: pollMessages throws (the loop sleeps 5000 ms),
\* returns without messages, or awaits the processing of the batch
PollReturn(l) ==
  /\ l \in DOMAIN poll.loops
  /\ poll.loops[l] = "receiving"
  /\ \E next \in {"backoff", "settling", WhileCheck(poll.isRunning)} :
       poll' = [poll EXCEPT !.loops[l] = next]
  /\ UNCHANGED <<config, payload, pc, step, attempt, delay, lastError, invocations, sleeps,
                 ctx, bound, stepsDone, result, caught, failedDetails, thrown, calls, done,
                 execs, comments, now, names, other, consumer, hook>>

\* the batch of loop l settled, or its sleep(5000) ended: the loop condition
\* is evaluated
CycleEnd(l) ==
  /\ l \in DOMAIN poll.loops
  /\ poll.loops[l] \in {"settling", "backoff"}
  /\ poll' = [poll EXCEPT !.loops[l] = WhileCheck(poll.isRunning)]
  /\ UNCHANGED <<config, payload, pc, step, attempt, delay, lastError, invocations, sleeps,
                 ctx, bound, stepsDone, result, caught, failedDetails, thrown, calls, done,
                 execs, comments, now, names, other, consumer, hook>>

LoopNext ==
  \/ StartCall
  \/ StopCall
  \/ \E l \in 1..MaxStarts : PollReturn(l)
  \/ \E l \in 1..MaxStarts : CycleEnd(l)

LoopSpec == PollInit /\ [][LoopNext]_vars

(* ====================================================================== *)
(* Properties                                                              *)
(* ====================================================================== *)
\* the retryWithBackoff call of the current step rejected
StepFailed == pc \in {"catch", "fail_update", "thrown"}

\* a WorkflowError classified retryable=false
NonRetryable(error) == error.wf /\ ~error.retryable

RECURSIVE Pow(_, _)
Pow(b, e) == IF e = 0 THEN 1 ELSE b * Pow(b, e - 1)

\* C1: an operation failing retryably on every attempt is invoked exactly
\* maxRetries+1 times (no operation is ever invoked more often), then
\* retryWithBackoff raises MAX_RETRIES_EXCEEDED with retryable=false; that
\* code is raised only when the maxRetries+1 attempts were used up.
C1_MaxRetriesExceeded ==
  /\ \A s \in 1..Len(Steps) : invocations[s] <= config.maxRetries + 1
  /\ (StepFailed /\ lastError # NoError /\ ~NonRetryable(lastError))
       => /\ invocations[step] = config.maxRetries + 1
          /\ caught.code = "MAX_RETRIES_EXCEEDED"
          /\ NonRetryable(caught)
  /\ caught.code = "MAX_RETRIES_EXCEEDED"
       => /\ invocations[step] = config.maxRetries + 1
          /\ Len(sleeps[step]) = (IF config.maxRetries < 0 THEN 0 ELSE config.maxRetries)
          /\ ~NonRetryable(lastError)

C1_Witness ==
  /\ pc = "thrown"
  /\ config.maxRetries = 3
  /\ step = 2
  /\ invocations[2] = 4
  /\ calls["createBranch"] = 4
  /\ thrown.code = "MAX_RETRIES_EXCEEDED"

\* C2: an attempt failing with a retryable=false error ends retryWithBackoff at
\* once: that error is re-raised unchanged, no sleep follows and the operation
\* is not invoked again; a createBranch failing non-retryably on the first
\* attempt has been invoked exactly once.
C2_NonRetryableState ==
  /\ (StepFailed /\ NonRetryable(lastError)) => caught = lastError
  /\ NonRetryable(lastError) => StepFailed
  /\ (lastError.code \in {"BRANCH_EXISTS", "REPO_NOT_FOUND"})
       => /\ calls["createBranch"] <= Len(sleeps[2]) + 1
          /\ (sleeps[2] = <<>> => calls["createBranch"] = 1)

C2_NonRetryableStep ==
  NonRetryable(lastError)
    => /\ sleeps' = sleeps
       /\ invocations' = invocations
       /\ lastError' = lastError
       /\ \A o \in Ops \ {"status:failed"} : calls'[o] = calls[o]

\* C2: the state part holds always and the step part of every step.
C2_NonRetryable == [](C2_NonRetryableState) /\ [][C2_NonRetryableStep]_vars

C2_Witness ==
  /\ pc = "thrown"
  /\ config.maxRetries = 3
  /\ thrown.code = "BRANCH_EXISTS"
  /\ calls["createBranch"] = 1
  /\ sleeps[2] = <<>>

\* C3: the k-th sleep of a retryWithBackoff call lasts
\* min(initialDelayMs * backoffMultiplier^(k-1), maxDelayMs).
C3_SleepFormula ==
  \A s \in 1..Len(Steps) : \A k \in 1..Len(sleeps[s]) :
    sleeps[s][k] = Min(config.initialDelayMs * Pow(config.backoffMultiplier, k - 1),
                       config.maxDelayMs)

\* C4: the status of the WorkItem only moves forward along the order of
\* StatusOrder (FAILED, the last, is reachable from every status and left by
\* none), and COMPLETED is reached only after BRANCH_CREATING (set on entry of
\* createBranch) and PROCESSING (set right before the agent is executed).
C4_ForwardStep ==
  ctx'.status # ctx.status => Rank(ctx'.status) > Rank(ctx.status)

\* C4: every step is a forward step, and COMPLETED has its predecessors.
C4_ForwardOnly ==
  /\ [][C4_ForwardStep]_vars
  /\ [](ctx.status = "completed" => invocations[2] >= 1 /\ calls["execute"] >= 1)

\* C5: when processIssue has returned or thrown, the WorkItem it built is
\* COMPLETED or FAILED.
C5_TerminalStatus ==
  (pc \in {"returned", "thrown"} /\ ctx.status # "none")
    => ctx.status \in {"completed", "failed"}

\* C6: when processIssue throws because an attempt of one of the four steps
\* failed for an issue whose WorkItem was built (Parse failing on the access
\* check included), exactly one FAILED status update carrying the error
\* message has been attempted.
C6_FailedUpdateAttempted ==
  (pc = "thrown" /\ lastError # NoError /\ ctx.status # "none")
    => /\ calls["status:failed"] = 1
       /\ failedDetails = thrown.message

\* C7: the FAILED status update is attempted at most once, and processIssue
\* throws the error of the failed step (the error retryWithBackoff rejected
\* with), also when the FAILED update itself failed.
C7_FailedUpdateOnce ==
  /\ calls["status:failed"] <= 1
  /\ pc = "thrown"
       => /\ thrown = caught
          /\ thrown \in {lastError, MaxRetriesExceeded(Steps[step], config, lastError)}
          /\ thrown.code # "none"

C7_Witness ==
  /\ pc = "thrown"
  /\ calls["status:failed"] = 1
  /\ done["status:failed"] = 0
  /\ thrown.code = "BRANCH_EXISTS"

\* C8: processIssue returns normally iff the four steps succeeded, each within
\* maxRetries+1 attempts; then an analysis comment and the COMPLETED status
\* were posted; in every other case it throws (it stops nowhere else).
C8_ReturnsIffSuccess ==
  /\ pc = "returned" <=> stepsDone = Len(Steps)
  /\ pc = "returned"
       => /\ done["addTechLeadAnalysis"] >= 1
          /\ done["status:completed"] >= 1
          /\ thrown = NoError
          /\ \A s \in 1..Len(Steps) : invocations[s] \in 1..(config.maxRetries + 1)
  /\ pc = "thrown" => stepsDone < Len(Steps) /\ thrown.code # "none"
  /\ pc \notin {"returned", "thrown"} => ENABLED Next

C8_Witness ==
  /\ pc = "returned"
  /\ done["addTechLeadAnalysis"] = 1
  /\ done["status:completed"] = 1
  /\ invocations[3] = 2
  /\ invocations[4] = 2

C10_RemoteOrder ==
  /\ calls["status:branch-creating"] > 0 => done["validateRepository"] >= 1
  /\ calls["createBranch"] > 0 => done["validateRepository"] >= 1
  /\ calls["execute"] > 0 => done["createBranch"] >= 1
  /\ calls["addTechLeadAnalysis"] > 0 => done["execute"] >= 1
  /\ calls["status:completed"] > 0 => done["addTechLeadAnalysis"] >= 1

C10_Witness ==
  /\ pc = "returned"
  /\ calls["validateRepository"] = 1
  /\ done["createBranch"] = 1
  /\ done["execute"] = 1
  /\ done["addTechLeadAnalysis"] = 1
  /\ done["status:completed"] = 1

\* part occurs in the message
Contains(message, part) == \E k \in 1..Len(message) : message[k] = part

\* C11: a step that returned after k retryable failures (one sleep each) was
\* invoked exactly k+1 times with k <= maxRetries; the loop does not give up on
\* a retryable failure while attempts remain; after a step returned the next
\* step is the one in progress, and when the last step returned processIssue
\* has completed with status COMPLETED.
C11_RetryThenSuccess ==
  /\ \A s \in 1..stepsDone :
       /\ invocations[s] = Len(sleeps[s]) + 1
       /\ Len(sleeps[s]) <= config.maxRetries
  /\ (StepFailed /\ lastError # NoError /\ ~NonRetryable(lastError))
       => Len(sleeps[step]) = config.maxRetries
  /\ stepsDone \in 1..(Len(Steps) - 1) => step = stepsDone + 1
  /\ stepsDone = Len(Steps)
       => /\ pc = "returned"
          /\ ctx.status = "completed"
          /\ thrown = NoError

C11_Witness ==
  /\ pc = "returned"
  /\ ctx.status = "completed"
  /\ Len(sleeps[2]) = 2
  /\ invocations[2] = 3
  /\ calls["createBranch"] = 3
  /\ done["createBranch"] = 1
  /\ lastError.code = "none"

\* C12: for a webhook whose issue title, repository name or owner login is
\* empty no remote call is ever attempted (no access check, no status posting,
\* no branch creation, no analysis comment).
C12_NoRemoteCallForEmptyFields ==
  (payload.title = "" \/ payload.name = "" \/ payload.login = "")
    => \A o \in Ops \ {"execute"} : calls[o] = 0

\* C13: for a WorkItem with an empty title, repository or owner the agent is
\* invoked at most once in a processIssue call, and once it has reported the
\* validation failure the step has failed with a non-retryable error.
C13_ValidationNeverRetried ==
  (ctx.title = "" \/ ctx.repository = "" \/ ctx.owner = "")
    => /\ calls["execute"] <= 1
       /\ (calls["execute"] = 1 /\ pc # "aa_execute")
            => /\ StepFailed
               /\ NonRetryable(caught)

\* C14: a failed interim status posting does not end the attempt: every
\* attempt of createBranch goes on to the branch creation and every attempt of
\* assignAgent (agent enabled) goes on to the execution of the agent.
C14_InterimStatusIgnored ==
  /\ pc # "bc_status" => calls["createBranch"] = invocations[2]
  /\ (pc # "aa_status" /\ config.enabled) => calls["execute"] = invocations[3]

\* C15: once the COMPLETED status update failed with 'Issue not found', the
\* update has been invoked exactly once and the UPDATE_STATUS step has failed
\* with a non-retryable error.
C15_NotFoundNotRetried ==
  (step = 4 /\ Contains(lastError.message, "Issue not found"))
    => /\ calls["status:completed"] = 1
       /\ StepFailed
       /\ NonRetryable(caught)

\* C16: with the tech-lead agent disabled the agent is never executed and no
\* analysis comment is posted; assignAgent is attempted once only, and when it
\* has failed processIssue rejects with 'Tech lead agent is disabled'.
C16_DisabledAgent ==
  ~config.enabled
    => /\ calls["execute"] = 0
       /\ calls["addTechLeadAnalysis"] = 0
       /\ invocations[3] <= 1
       /\ (step = 3 /\ pc \notin {"loop", "aa_status"})
            => /\ StepFailed
               /\ caught = AgentDisabledError
       /\ (step = 3 /\ pc = "thrown") => thrown = AgentDisabledError

\* C17: a success=false result of the agent makes assignAgent fail with a
\* retryable error, which ends the step only by exhaustion of the retries; when
\* the step has failed and every one of its attempts executed the agent, which
\* reported failure each time, the agent was executed exactly maxRetries+1
\* times, no analysis comment was attempted and MAX_RETRIES_EXCEEDED is thrown.
C17_AgentFailureRetried ==
  /\ lastError.code = "AGENT_EXECUTION_FAILED"
       => /\ lastError.retryable
          /\ StepFailed => /\ caught.code = "MAX_RETRIES_EXCEEDED"
                            /\ invocations[3] = config.maxRetries + 1
  /\ (StepFailed /\ step = 3 /\ calls["execute"] = invocations[3]
        /\ done["execute"] = 0 /\ config.enabled)
       => /\ calls["execute"] = config.maxRetries + 1
          /\ calls["addTechLeadAnalysis"] = 0
          /\ caught.code = "MAX_RETRIES_EXCEEDED"
          /\ (pc = "thrown" => thrown = caught)

C17_Witness ==
  /\ pc = "thrown"
  /\ step = 3
  /\ config.maxRetries = 3
  /\ calls["execute"] = 4
  /\ done["execute"] = 0
  /\ calls["addTechLeadAnalysis"] = 0
  /\ thrown.code = "MAX_RETRIES_EXCEEDED"
  /\ validateContext(ctx)

\* C18: an execute call returns one result, decided by what settled the race
\* first: the timer gives success=false with an error containing 'timed out',
\* the prompt call gives the outcome of the prompt call; whatever settles after
\* the call returned leaves its result as it is.
C18_RaceState ==
  \A i \in 1..Len(execs) :
    LET e == execs[i] IN
    /\ e.results <= 1
    /\ e.state = "returned" <=> e.results = 1
    /\ e.first = "timer"
         => /\ e.timer = "fired"
            /\ ~e.result.success
            /\ Contains(e.result.error, " timed out after ")
    /\ e.first = "prompt"
         => /\ e.prompt \in RunnerOutcomes
            /\ e.result.success <=> e.prompt = "resolve"
            /\ e.prompt = "resolve" => e.result.output = "analysis"
            /\ ~Contains(e.result.error, " timed out after ")

C18_RaceStep ==
  /\ \A i \in 1..Len(execs) :
       execs[i].state = "returned"
         => /\ execs'[i].result = execs[i].result
            /\ execs'[i].results = execs[i].results
            /\ execs'[i].first = execs[i].first
  /\ result' # result
       => \E i \in 1..Len(execs') :
            /\ execs'[i].state = "returned"
            /\ execs'[i].result = result'
            /\ i <= Len(execs) => execs[i].state = "racing"

\* C18: the state part holds always and the step part of every step.
C18_TimeoutRace == [](C18_RaceState) /\ [][C18_RaceStep]_vars

C18_Witness ==
  \E i \in 1..Len(execs) :
    /\ execs[i].first = "timer"
    /\ execs[i].prompt = "resolve"
    /\ execs[i].results = 1
    /\ Contains(execs[i].result.error, " timed out after ")
    /\ i < Len(execs)
    /\ execs[Len(execs)].first = "prompt"
    /\ result.success

\* C19: every execute call on a WorkItem with an empty title, repository or
\* owner has returned success=false with the 'Invalid workflow context' error
\* and has not called the prompt runner.
C19_InvalidContextRejected ==
  (ctx.title = "" \/ ctx.repository = "" \/ ctx.owner = "")
    => \A i \in 1..Len(execs) :
         /\ execs[i].runnerCalls = 0
         /\ execs[i].prompt = "none"
         /\ execs[i].state = "returned"
         /\ ~execs[i].result.success
         /\ Contains(execs[i].result.error,
                     "Invalid workflow context: missing required fields")

C19_Witness ==
  /\ ctx.title # ""
  /\ ctx.owner = ""
  /\ Len(execs) = 1
  /\ execs[1].timer = "fired"
  /\ execs[1].runnerCalls = 0
  /\ ~result.success
  /\ Contains(result.error, "Invalid workflow context: missing required fields")

\* C20: an execute call decided by a rejection of the prompt runner, whatever
\* the rejected value, has returned success=false, output '' and an error that
\* starts with 'Tech lead analysis failed: '.
C20_RejectionPrefixed ==
  \A i \in 1..Len(execs) :
    (execs[i].first = "prompt" /\ execs[i].prompt # "resolve")
      => /\ ~execs[i].result.success
         /\ execs[i].result.output = ""
         /\ execs[i].result.error # <<>>
         /\ Head(execs[i].result.error) = "Tech lead analysis failed: "

C24_TerminalUpdateOnce ==
  stepsDone >= 1
    => /\ calls["status:completed"] + calls["status:failed"] <= 1
       /\ pc \in {"returned", "thrown"}
            => calls["status:completed"] + calls["status:failed"] = 1

\* C23: no processIssue call leaves both a 'completed' status comment or
\* 'workflow:completed' label and a 'failed' status comment or
\* 'workflow:failed' label on the issue.
C23_OneOutcome ==
  ~ /\ comments["status:completed"] > 0 \/ done["status:completed"] > 0
    /\ comments["status:failed"] > 0 \/ done["status:failed"] > 0

RECURSIVE SumSeq(_)
SumSeq(q) == IF q = <<>> THEN 0 ELSE Head(q) + SumSeq(Tail(q))

\* an attempt of the current step is in progress
InAttempt ==
  pc \in {"validateRepository", "bc_status", "bc_create", "aa_status", "aa_execute",
          "aa_analysis", "us_update"}

\* C29: the attempts of a retryWithBackoff call are sequential: attempt k+1 is
\* started only when k attempts have ended and k sleeps have been waited in
\* full (the clock has advanced by every delay slept), a sleep starts only
\* after the attempt before it ended; a step is started only when all steps
\* before it have returned, so no two steps are in progress together.
C29_Sequential ==
  step >= 1
    => /\ stepsDone = (IF pc = "returned" THEN step ELSE step - 1)
       /\ \A s \in 1..Len(Steps) : s > step => invocations[s] = 0 /\ sleeps[s] = <<>>
       /\ InAttempt => /\ invocations[step] = attempt + 1
                        /\ Len(sleeps[step]) = attempt
       /\ pc = "sleep" => /\ invocations[step] = attempt + 1
                           /\ Len(sleeps[step]) = attempt + 1
       /\ pc = "loop" => /\ invocations[step] = attempt
                          /\ Len(sleeps[step]) = attempt
       /\ now = SumSeq([s \in 1..Len(Steps) |-> SumSeq(sleeps[s])])
                  - (IF pc = "sleep" THEN delay ELSE 0)

C29_Witness ==
  /\ pc = "us_update"
  /\ invocations[4] = 3
  /\ Len(sleeps[4]) = 2
  /\ Len(sleeps[2]) = 1
  /\ now = SumSeq(sleeps[2]) + SumSeq(sleeps[4])
  /\ now > 0

\* the error carries no retryability classification
Unclassified(error) == error # NoError /\ (~error.wf \/ error.code = "UNFLAGGED")

\* C30: an attempt failing with an error that is no WorkflowError, or with a
\* WorkflowError built without a retryable argument, never ends
\* retryWithBackoff at once: when the call has rejected after such a failure
\* it rejects with MAX_RETRIES_EXCEEDED, after maxRetries sleeps and
\* maxRetries+1 invocations.
C30_UnclassifiedRetried ==
  (Unclassified(lastError) /\ pc = "catch")
    => /\ caught.code = "MAX_RETRIES_EXCEEDED"
       /\ Len(sleeps[step]) = config.maxRetries
       /\ invocations[step] = config.maxRetries + 1

C30_Witness ==
  /\ pc = "catch"
  /\ lastError = GenericError(<<"socket hang up">>)
  /\ config.maxRetries = 3
  /\ Len(sleeps[step]) = 3
  /\ invocations[step] = 4
  /\ caught.code = "MAX_RETRIES_EXCEEDED"

\* C21: a DeleteMessageCommand is sent at most once per message and only
\* after processIssue returned normally for it; a message whose body did not
\* parse or whose processIssue call threw has caused no delete and is still in
\* the queue, and a message skipped for a missing body or receipt handle too.
C21_DeleteAfterSuccess ==
  /\ consumer.deletes <= 1
  /\ consumer.deletes > 0
       => /\ pc = "returned"
          /\ thrown = NoError
          /\ consumer.body = "json"
          /\ consumer.msg \in {"deleting", "done"}
  /\ consumer.removed => consumer.deletes = 1
  /\ pc = "thrown" => consumer.deletes = 0
  /\ consumer.msg \in {"failed", "skipped"}
       => /\ consumer.deletes = 0
          /\ ~consumer.removed

C21_Witness ==
  /\ consumer.msg = "failed"
  /\ pc = "thrown"
  /\ consumer.error = thrown
  /\ thrown.code = "MAX_RETRIES_EXCEEDED"
  /\ stepsDone = 3
  /\ consumer.deletes = 0

\* C25: healthCheck has made exactly one remote access check when it has
\* reported, it reports 'healthy' iff that check succeeded, and it leaves the
\* WorkItem of processIssue alone.
C25_HealthCheck ==
  consumer.health # "none"
    => /\ consumer.checks = 1
       /\ consumer.health = "healthy" <=> consumer.access = "ok"
       /\ consumer.health = "unhealthy" <=> consumer.access = "failed"
       /\ pc = "boot" => ctx = NoContext


RECURSIVE DelayAt(_, _)
\* the delay of retryWithBackoff after k sleeps
DelayAt(k, retryConfig) ==
  IF k = 0 THEN retryConfig.initialDelayMs
  ELSE NextDelay(DelayAt(k - 1, retryConfig), retryConfig)

\* what holds of a processIssue call l that runs alone on a processor with
\* retryConfig: its delay and its sleeps follow the backoff of its own
\* attempts, its attempts and steps are counted by its own invocations, and
\* its status and outcome are those of its own position
OwnRun(l, retryConfig) ==
  /\ l.step = 0 => l.pc = "idle" /\ l.ctx = NoContext /\ l.thrown = NoError
  /\ l.step >= 1 =>
       /\ l.delay = DelayAt(l.attempt, retryConfig)
       /\ l.stepsDone = (IF l.pc = "returned" THEN l.step ELSE l.step - 1)
       /\ \A s \in 1..Len(Steps) :
            /\ \A k \in 1..Len(l.sleeps[s]) : l.sleeps[s][k] = DelayAt(k - 1, retryConfig)
            /\ s > l.step => l.invocations[s] = 0 /\ l.sleeps[s] = <<>>
            /\ s < l.step => l.invocations[s] = Len(l.sleeps[s]) + 1
            /\ l.invocations[s] <= retryConfig.maxRetries + 1
       /\ l.pc = "sleep" => /\ l.invocations[l.step] = l.attempt + 1
                             /\ Len(l.sleeps[l.step]) = l.attempt + 1
       /\ l.pc \notin {"sleep", "loop", "catch", "fail_update", "thrown", "returned"}
            => /\ l.invocations[l.step] = l.attempt + 1
               /\ Len(l.sleeps[l.step]) = l.attempt
  /\ l.pc = "returned" => /\ l.ctx.status = "completed" /\ l.thrown = NoError
                           /\ l.stepsDone = Len(Steps)
  /\ l.pc = "thrown" => /\ l.thrown = l.caught /\ l.thrown # NoError
                         /\ l.bound => l.ctx.status = "failed"
  /\ l.pc \in {"bc_status", "bc_create"} => l.ctx.status = "branch_creating"
  /\ l.pc = "aa_status" => l.ctx.status = "agent_assigned"
  /\ l.pc \in {"aa_execute", "aa_analysis"} => l.ctx.status = "processing"
  /\ l.ctx # NoContext => /\ l.ctx.title = l.payload.title
                           /\ l.ctx.issueNumber = l.payload.number

\* C26: of two processIssue calls running concurrently on one processor, each
\* has the delay, sleeps, attempt counts, status and outcome of a call that
\* runs alone
C26_OwnState ==
  /\ OwnRun(Locals, config)
  /\ other # NoOther => OwnRun(other, config)

\* C26: a step of one call leaves everything of the suspended call as it is,
\* and a resumed call finds its WorkItem, attempt counter, delay, sleeps and
\* counts as it left them
C26_OwnStep ==
  other # NoOther =>
    \/ other' = other
    \/ other' = Locals /\ Locals' = other

AllNames == names \o (IF other = NoOther THEN <<>> ELSE other.names)

\* C27: every createBranch attempt uses a name of the form
\* feature/issue-<number>-<epoch-ms>, and no two attempts for the same issue,
\* retries of one processIssue call or attempts of two calls, use the same name.
C27_DistinctNames ==
  /\ \A i \in DOMAIN AllNames :
       /\ Len(AllNames[i]) = 4
       /\ AllNames[i][1] = "feature/issue-"
       /\ AllNames[i][2] \in IssueNumbers
       /\ AllNames[i][3] = "-"
       /\ AllNames[i][4] \in Nat
  /\ \A i, j \in DOMAIN AllNames : i # j => AllNames[i] # AllNames[j]

\* the letters of two names are the same but for their case
SameIgnoringCase(a, b) ==
  /\ Len(a) = Len(b)
  /\ \A i \in 1..Len(a) :
       \/ a[i] = b[i]
       \/ <<a[i], b[i]>> \in {<<"W", "w">>, <<"w", "W">>, <<"F", "f">>, <<"f", "F">>}

\* the event of the request is one the handler is to pass on
Wanted(body) ==
  /\ body.json
  /\ body.action = "opened"
  /\ body.issue
  /\ body.state = "open"
  /\ \A label \in body.labels :
       /\ \A ignored \in ignoredLabels : ~SameIgnoringCase(label, ignored)
       /\ ~startsWith(label, WorkflowPrefix)

\* C28: a SendMessage command is sent, and a message enqueued, only for a
\* request whose signature is the HMAC of its body under the configured secret
\* and whose event is an 'opened' action on an open issue with no ignored
\* label (in any case) and no 'workflow:' label; a request with a missing or
\* invalid signature is answered 401, a verified request with a filtered event
\* 200 'Event ignored', both with nothing sent.
C28_EnqueueOnlyVerified ==
  hook # NoHook =>
    /\ hook.sent <= 1
    /\ Len(hook.queue) <= hook.sent
    /\ hook.sent > 0 => /\ hook.signature = Hmac(Secret, hook.body)
                         /\ Wanted(hook.body)
    /\ \A k \in 1..Len(hook.queue) : hook.queue[k] = hook.body
    /\ hook.state = "responded" /\ hook.signature # Hmac(Secret, hook.body)
         => /\ hook.status = 401
            /\ hook.message = "Invalid signature"
            /\ hook.sent = 0
    /\ hook.state = "responded" /\ hook.signature = Hmac(Secret, hook.body)
         /\ hook.body.json /\ ~Wanted(hook.body)
         => /\ hook.status = 200
            /\ hook.message = "Event ignored"
            /\ hook.sent = 0

C28_Witness ==
  /\ hook # NoHook
  /\ hook.state = "responded"
  /\ hook.signature = Hmac(Secret, hook.body)
  /\ hook.body.action = "opened"
  /\ hook.body.state = "open"
  /\ hook.body.labels = {<<"b", "u", "g">>, <<"W", "o", "n", "t", "F", "i", "x">>}
  /\ hook.status = 200
  /\ hook.message = "Event ignored"

\* the fields of a WorkflowContext that identify and describe the issue
Identity(context) ==
  <<context.issueId, context.issueNumber, context.owner, context.repository,
    context.title, context.body, context.labels>>

\* C31: the WorkItem built by Parse carries the identity of the payload
C31_IdentityState ==
  ctx # NoContext =>
    Identity(ctx) = <<payload.id, payload.number, payload.login, payload.name,
                      payload.title, payload.body, payload.labels>>

\* C31: once Parse has built the WorkItem, no step, retry or failure path
\* changes its issueId, issueNumber, owner, repository, title, body or labels
C31_IdentityStep ==
  ctx # NoContext => Identity(ctx') = Identity(ctx)

\* C31: the identity of the WorkItem is immutable once parsed
C31_IdentityImmutable == [](C31_IdentityState) /\ [][C31_IdentityStep]_vars

C31_Witness ==
  /\ pc = "thrown"
  /\ ctx.status = "failed"
  /\ ctx.branchName
  /\ ctx.agentType = "tech_lead"
  /\ invocations[3] = 2
  /\ Identity(ctx) = <<1001, 1, "octo", "repo", "Add login", "As a user I want to log in",
                       <<"bug">>>>

\* C32: every change of the WorkItem status is accompanied by a refresh of
\* updatedAt (a new Date object is assigned).
C32_StatusRefresh ==
  [][ctx'.status # ctx.status => ctx'.updatedAt # ctx.updatedAt]_vars

\* C33: processMessage never rejects; every message of a received batch is
\* started before pollMessages waits; a message that failed or is still being
\* processed never keeps another message of the batch from going on to its
\* delete; pollMessages returns only when every message has settled.
C33_NoRejection ==
  /\ \A i \in DOMAIN poll.batch :
       /\ poll.batch[i].state # "rejected"
       /\ poll.batch[i].state = "processing" => ENABLED ProcessIssueSettles(i)
       /\ poll.batch[i].state = "deleting" => ENABLED DeleteSettles(i)
  /\ poll.call = "returned" =>
       \A i \in DOMAIN poll.batch : poll.batch[i].state = "fulfilled"
  /\ poll.call = "thrown" => poll.batch = <<>>

\* C33: a step of one message changes no other message of the batch
C33_OwnMessage ==
  poll.batch # <<>> =>
    /\ DOMAIN poll'.batch = DOMAIN poll.batch
    /\ \A i, j \in DOMAIN poll.batch :
         poll'.batch[i] # poll.batch[i] /\ poll'.batch[j] # poll.batch[j] => i = j

\* C33: the messages of a batch are processed in parallel and independently
C33_ParallelBatch == [](C33_NoRejection) /\ [][C33_OwnMessage]_vars

C33_Witness ==
  /\ poll.call = "settling"
  /\ Len(poll.batch) = 2
  /\ poll.batch[1].state = "processing"
  /\ poll.batch[2] = [state |-> "fulfilled", outcome |-> "deleted"]

\* C39: at most one polling loop of the consumer is active at any time.
C39_OneLoop ==
  Cardinality({l \in DOMAIN poll.loops : poll.loops[l] # "exited"}) <= 1

\* C35: within one processIssue call at most one branch is created and at
\* most one analysis comment posted
C35_OnceState ==
  /\ done["createBranch"] <= 1
  /\ done["addTechLeadAnalysis"] <= 1
  /\ done["createBranch"] = 1 => stepsDone >= 2
  /\ done["addTechLeadAnalysis"] = 1 => stepsDone >= 3

\* C35: a step whose attempt succeeded is never attempted again
C35_OnceStep ==
  \A s \in 1..Len(Steps) : invocations'[s] # invocations[s] => stepsDone < s

\* C35: a step is never re-attempted after one of its attempts succeeded
C35_NoRepeatAfterSuccess == [](C35_OnceState) /\ [][C35_OnceStep]_vars

C35_Witness ==
  /\ pc = "returned"
  /\ invocations[2] = 3
  /\ invocations[3] = 3
  /\ calls["createBranch"] = 2
  /\ done["createBranch"] = 1
  /\ calls["addTechLeadAnalysis"] = 2
  /\ done["addTechLeadAnalysis"] = 1

\* C36: within one processIssue call each interim status update
\* ('branch-creating', 'processing') is posted to the issue at most once.
C36_InterimStatusOnce ==
  /\ done["status:branch-creating"] <= 1
  /\ done["status:processing"] <= 1

\* C37: once the agent has returned a successful result it is not invoked
\* again within the processIssue call.
C37_AgentOnce ==
  [][done["execute"] >= 1 => calls'["execute"] = calls["execute"]]_vars

\* C38: no backoff sleep of retryWithBackoff is longer than maxDelayMs, for
\* every retry configuration that can be loaded.
C38_SleepCapped ==
  \A s \in 1..Len(Steps) : \A k \in 1..Len(sleeps[s]) : sleeps[s][k] <= config.maxDelayMs

Max(a, b) == IF a >= b THEN a ELSE b

\* the processIssue call has settled
Terminated == pc \in {"returned", "thrown"}

\* C34: each step is attempted at most maxRetries+1 times and the FAILED
\* status update at most once
C34_Bounded ==
  /\ \A s \in 1..Len(Steps) : invocations[s] <= Max(0, config.maxRetries + 1)
  /\ SumSeq(invocations) <= Len(Steps) * Max(0, config.maxRetries + 1)
  /\ calls["status:failed"] <= 1

\* C34: if every remote call, agent execution and sleep returns, every
\* processIssue call terminates within the bounds on its attempts
C34_Terminates == [](C34_Bounded) /\ <>Terminated /\ [](Terminated => []Terminated)

C34_Witness ==
  /\ pc = "thrown"
  /\ config.maxRetries = 2
  /\ invocations = <<1, 3, 3, 3>>
  /\ calls["status:failed"] = 1

\* C40: over all deliveries of one queue message, at most one feature branch
\* is created and at most one analysis comment posted for the issue.
C40_RedeliveryIdempotent ==
  /\ consumer.branches + done["createBranch"] <= 1
  /\ consumer.analyses + done["addTechLeadAnalysis"] <= 1
====
